---- MODULE Spec2Model ----
(***************************************************************************)
(* Notification scheduling and delivery engine of the Farmacy backend:     *)
(* the FCM token registry (app/services/fcm.py), the notification service  *)
(* (app/services/notification.py) and the request validation in front of   *)
(* it (app/schemas/notification.py).                                       *)
(*                                                                         *)
(* The relational store is PostgreSQL at its default READ COMMITTED        *)
(* isolation: every statement sees the rows committed so far, and a        *)
(* commit makes the session's pending writes visible at once.  One model   *)
(* step is therefore one statement (or one flush+commit) of one session.   *)
(*                                                                         *)
(* The specifications share the variables:                                 *)
(*   Spec       the token registry, every operation run to completion;     *)
(*   SpecRace   register_token run statement by statement by the worker    *)
(*              threads that execute the registration background task;    *)
(*   SpecNotif  a notification create call racing the due-notification     *)
(*              sweep, statement by statement;                             *)
(*   SpecSweep  the sweeps of two application instances sharing the        *)
(*              database, statement by statement;                          *)
(*   SpecOneSweep  one sweep at a time over several due notifications;     *)
(*   SpecRead   the mark-read calls of the notification service;           *)
(*   SpecMcast  send_multicast_push_notification (app/core/push.py), one   *)
(*              provider call at a time;                                   *)
(*   SpecJobs   the per-user test jobs of NotificationScheduler            *)
(*              (app/services/scheduler.py);                               *)
(*   SpecDigest   one run of send_daily_crop_updates_sync;                 *)
(*   SpecTopics   topic creation, subscription and unsubscription;         *)
(*   SpecPersist  create calls on every path, the store failing or not;    *)
(*   SpecRetry    the sweep run again and again, with fairness;            *)
(*   SpecStall    the sweep when a provider call may hang;                 *)
(*   SpecDeliver  a delivery racing token registrations.                   *)
(***************************************************************************)
EXTENDS Integers, Sequences, FiniteSets, TLC

\* ------------------------------------------------------------------ bounds
NumUsers == 2        \* user ids 1..NumUsers
MaxTime == 1         \* the clock runs over 0..MaxTime
MaxTokRows == 4      \* fcm_tokens rows ever inserted (autoincrement ids)
MaxRaceRows == 3     \* fcm_tokens rows inserted by racing registrations
MaxNotifs == 1       \* user_notifications rows ever inserted
MaxDue == 2          \* notifications scheduled ahead of one instance's sweep
MaxReadNotifs == 2   \* user_notifications rows in the mark-read runs
MaxBatches == 2      \* multicast token lists of up to MaxBatches full batches
MaxTestNotifs == 2   \* user_notifications rows created by firing test jobs
MaxSubRows == 3      \* user_topic_subscriptions rows ever inserted
MaxRetryDue == 1     \* notifications scheduled ahead of the repeated sweeps

BatchLimit == 500    \* tokens per send_multicast call

NULL == -1           \* SQL NULL / Python None for a nullable column

Users == 1..NumUsers
Tokens == {"T1", "T2"}
DevTypes == {"android", "ios"}
Times == 0..MaxTime

VARIABLES
    now,        \* datetime.now(IST_TIME), an abstract instant
    tokens,     \* table fcm_tokens: a set of rows
    nextTokId,  \* next autoincrement id of fcm_tokens
    last,       \* the last registry call run to completion and what it returned
    reg,        \* per worker thread: the register_token call in progress
    notifs,     \* table user_notifications: row n has id n
    proc,       \* per create call / sweep in progress: its locals and position
    delivered,  \* the notification ids the provider accepted a send for
    mcast,      \* the send_multicast_push_notification call in progress
    sched,      \* the NotificationScheduler singleton: test_users and job store
    digest,     \* the send_daily_crop_updates_sync run in progress
    subs        \* notification_topics, user_topic_subscriptions, last topic call

notifVars == <<notifs, proc, delivered>>

auxVars == <<mcast, sched, digest, subs>>

vars == <<now, tokens, nextTokId, last, reg, notifs, proc, delivered,
          mcast, sched, digest, subs>>

\* ------------------------------------------------------- table fcm_tokens
\* A row of fcm_tokens.  The table has no unique constraint on token or on
\* (user_id, token): only the primary key id is unique.
NoRow ==
    [id |-> 0, user_id |-> 0, token |-> "", device_type |-> "",
     is_active |-> FALSE, last_used_at |-> NULL]

NewRow(id, u, t, d, at) ==
    [id |-> id, user_id |-> u, token |-> t, device_type |-> d,
     is_active |-> TRUE, last_used_at |-> at]

\* existing_token: the rows of this user holding this token
ExistingRows(tb, u, t) == {r \in tb : r.user_id = u /\ r.token = t}

\* the conflict query filtering on the caller instead of on the other users
OtherRowsSameUser(tb, u, t) == {r \in tb : r.token = t /\ r.user_id = u}

\* token_used_by_other: the rows of other users holding this token
OtherRows(tb, u, t) == {r \in tb : r.token = t /\ r.user_id # u}

\* the rows of one user
UserRows(tb, u) == {r \in tb : r.user_id = u}

\* Query.first() without ORDER BY: any one matching row, or none.
\* The result is a set holding at most one row.
First(S) == IF S = {} THEN {{}} ELSE {{r} : r \in S}

\* the update branch forgetting to store the device type presented
UpdatedRowKeepDevice(e, d, at) ==
    [e EXCEPT !.is_active = TRUE, !.last_used_at = at]

\* the update branch of register_token applied to the row found
UpdatedRow(e, d, at) ==
    [e EXCEPT !.device_type = d, !.is_active = TRUE, !.last_used_at = at]

\* the users that have a row for token t
Owners(tb, t) == {r.user_id : r \in {x \in tb : x.token = t}}

Idle == [op |-> "none", user_id |-> 0, token |-> "", device_type |-> "",
         ret |-> NoRow, ok |-> FALSE, updated |-> FALSE, evicted |-> FALSE]

\* ------------------------------------- registry operations run to completion
\* register_token inserting the new row without deleting the other owner's
RegisterTokenNoEvict(u, t, d) ==
    /\ IF ExistingRows(tokens, u, t) # {}
       THEN \E e \in ExistingRows(tokens, u, t) :
                /\ tokens' = (tokens \ {e}) \cup {UpdatedRow(e, d, now)}
                /\ last' = [op |-> "register", user_id |-> u, token |-> t,
                            device_type |-> d, ret |-> UpdatedRow(e, d, now),
                            ok |-> TRUE, updated |-> TRUE,
                            evicted |-> FALSE]
                /\ UNCHANGED nextTokId
       ELSE /\ nextTokId <= MaxTokRows
            /\ tokens' = tokens \cup {NewRow(nextTokId, u, t, d, now)}
            /\ last' = [op |-> "register", user_id |-> u, token |-> t,
                        device_type |-> d,
                        ret |-> NewRow(nextTokId, u, t, d, now),
                        ok |-> TRUE, updated |-> FALSE,
                        evicted |-> (OtherRows(tokens, u, t) # {})]
            /\ nextTokId' = nextTokId + 1
    /\ UNCHANGED <<now, reg, notifVars, auxVars>>

\* FCMService.register_token
RegisterToken(u, t, d) ==
    /\ IF ExistingRows(tokens, u, t) # {}
       THEN \E f \in First(ExistingRows(tokens, u, t)) :
              \E e \in f :
                /\ tokens' = (tokens \ {e}) \cup {UpdatedRow(e, d, now)}
                /\ last' = [op |-> "register", user_id |-> u, token |-> t,
                            device_type |-> d, ret |-> UpdatedRow(e, d, now),
                            ok |-> TRUE, updated |-> TRUE,
                            evicted |-> FALSE]
                /\ UNCHANGED nextTokId
       ELSE /\ nextTokId <= MaxTokRows
            /\ \E o \in First(OtherRows(tokens, u, t)) :
                /\ tokens' = (tokens \ o) \cup {NewRow(nextTokId, u, t, d, now)}
                /\ last' = [op |-> "register", user_id |-> u, token |-> t,
                            device_type |-> d,
                            ret |-> NewRow(nextTokId, u, t, d, now),
                            ok |-> TRUE, updated |-> FALSE,
                            evicted |-> (o # {})]
                /\ nextTokId' = nextTokId + 1
    /\ UNCHANGED <<now, reg, notifVars, auxVars>>

\* unregister_token reporting a deletion whether or not a row was found
UnregisterTokenAlwaysTrue(u, t) ==
    /\ \E f \in First(ExistingRows(tokens, u, t)) :
         /\ tokens' = tokens \ f
         /\ last' = [Idle EXCEPT !.op = "unregister", !.user_id = u,
                                 !.token = t, !.ok = TRUE]
    /\ UNCHANGED <<now, nextTokId, reg, notifVars, auxVars>>

\* FCMService.unregister_token
UnregisterToken(u, t) ==
    /\ \E f \in First(ExistingRows(tokens, u, t)) :
         /\ tokens' = tokens \ f
         /\ last' = [Idle EXCEPT !.op = "unregister", !.user_id = u,
                                 !.token = t, !.ok = (f # {})]
    /\ UNCHANGED <<now, nextTokId, reg, notifVars, auxVars>>

\* unregister_all_user_tokens reporting failure when the user had no token
UnregisterAllReportsFound(u) ==
    /\ tokens' = tokens \ UserRows(tokens, u)
    /\ last' = [Idle EXCEPT !.op = "unregister_all", !.user_id = u,
                            !.ok = (UserRows(tokens, u) # {})]
    /\ UNCHANGED <<now, nextTokId, reg, notifVars, auxVars>>

\* FCMService.unregister_all_user_tokens
UnregisterAllUserTokens(u) ==
    /\ tokens' = tokens \ UserRows(tokens, u)
    /\ last' = [Idle EXCEPT !.op = "unregister_all", !.user_id = u, !.ok = TRUE]
    /\ UNCHANGED <<now, nextTokId, reg, notifVars, auxVars>>

\* FCMService.remove_user_token: a bulk DELETE of every matching row
RemoveUserToken(u, t) ==
    /\ tokens' = tokens \ ExistingRows(tokens, u, t)
    /\ last' = [Idle EXCEPT !.op = "remove", !.user_id = u, !.token = t,
                            !.ok = TRUE]
    /\ UNCHANGED <<now, nextTokId, reg, notifVars, auxVars>>

\* the clock advances
Tick ==
    /\ now < MaxTime
    /\ now' = now + 1
    /\ UNCHANGED <<tokens, nextTokId, last, reg, notifVars, auxVars>>

\* ------------------------- register_token, one statement at a time (race)
\* The registration endpoint hands register_and_notify_in_background to
\* BackgroundTasks; being a plain function it runs on a thread of the worker
\* pool with a session of its own, so two calls interleave at every statement.
Workers == {"w1", "w2"}

RegIdle == [pc |-> "idle", user_id |-> 0, token |-> "", device_type |-> "",
            found |-> {}, ret |-> NoRow, raised |-> FALSE]

InFlight == {w \in Workers : reg[w].pc \notin {"idle", "done"}}

\* register_and_notify_in_background starts register_token
RegCall(w, u, t, d) ==
    /\ reg[w].pc = "idle"
    /\ nextTokId + Cardinality(InFlight) <= MaxRaceRows
    /\ reg' = [reg EXCEPT ![w] = [RegIdle EXCEPT !.pc = "q_existing",
                   !.user_id = u, !.token = t, !.device_type = d]]
    /\ UNCHANGED <<now, tokens, nextTokId, last, notifVars, auxVars>>

\* SELECT ... WHERE user_id = :u AND token = :t  (first row)
RegQueryExisting(w) ==
    /\ reg[w].pc = "q_existing"
    /\ \E f \in First(ExistingRows(tokens, reg[w].user_id, reg[w].token)) :
         reg' = [reg EXCEPT ![w].found = f,
                            ![w].pc = IF f # {} THEN "update" ELSE "q_other"]
    /\ UNCHANGED <<now, tokens, nextTokId, last, notifVars, auxVars>>

\* UPDATE fcm_tokens SET ... WHERE id = :id; commit.  The unit of work
\* expects one matched row and raises (StaleDataError) when the row is gone;
\* the handler rolls back and re-raises.
RegUpdate(w) ==
    /\ reg[w].pc = "update"
    /\ \E e \in reg[w].found :
         LET cur == {r \in tokens : r.id = e.id} IN
         IF cur = {}
         THEN /\ reg' = [reg EXCEPT ![w].pc = "done", ![w].raised = TRUE]
              /\ UNCHANGED tokens
         ELSE \E c \in cur :
              /\ tokens' = (tokens \ {c})
                             \cup {UpdatedRow(c, reg[w].device_type, now)}
              /\ reg' = [reg EXCEPT ![w].pc = "done",
                           ![w].ret = UpdatedRow(c, reg[w].device_type, now)]
    /\ UNCHANGED <<now, nextTokId, last, notifVars, auxVars>>

\* SELECT ... WHERE token = :t AND user_id != :u  (first row)
RegQueryOther(w) ==
    /\ reg[w].pc = "q_other"
    /\ \E f \in First(OtherRows(tokens, reg[w].user_id, reg[w].token)) :
         reg' = [reg EXCEPT ![w].found = f,
                            ![w].pc = IF f # {} THEN "delete" ELSE "insert"]
    /\ UNCHANGED <<now, tokens, nextTokId, last, notifVars, auxVars>>

\* DELETE FROM fcm_tokens WHERE id = :id; commit.  A delete matching no row
\* only warns.
RegDeleteOther(w) ==
    /\ reg[w].pc = "delete"
    /\ tokens' = {r \in tokens : \A o \in reg[w].found : r.id # o.id}
    /\ reg' = [reg EXCEPT ![w].pc = "insert"]
    /\ UNCHANGED <<now, nextTokId, last, notifVars, auxVars>>

\* INSERT INTO fcm_tokens ...; commit
RegInsert(w) ==
    /\ reg[w].pc = "insert"
    /\ tokens' = tokens \cup {NewRow(nextTokId, reg[w].user_id, reg[w].token,
                                     reg[w].device_type, now)}
    /\ nextTokId' = nextTokId + 1
    /\ reg' = [reg EXCEPT ![w].pc = "refresh",
                 ![w].ret = NewRow(nextTokId, reg[w].user_id, reg[w].token,
                                   reg[w].device_type, now)]
    /\ UNCHANGED <<now, last, notifVars, auxVars>>

\* db.refresh(fcm_token): SELECT by primary key; raises when the row is gone
RegRefresh(w) ==
    /\ reg[w].pc = "refresh"
    /\ reg' = [reg EXCEPT ![w].pc = "done",
                 ![w].raised = (\A r \in tokens : r.id # reg[w].ret.id)]
    /\ UNCHANGED <<now, tokens, nextTokId, last, notifVars, auxVars>>

\* the background task ends; the thread takes the next one
RegReturn(w) ==
    /\ reg[w].pc = "done"
    /\ reg' = [reg EXCEPT ![w] = RegIdle]
    /\ UNCHANGED <<now, tokens, nextTokId, last, notifVars, auxVars>>

\* ------------------------------------------- notifications: create and sweep
\* Every application instance runs the request handlers and its own
\* NotificationScheduler against the one database, so a create call and the
\* sweeps of two instances interleave at every statement and provider call.
Creators == {"c1"}
Sweepers == {"s1", "s2"}
\* the instance whose sweeps are followed from one run to the next
Retriers == {"r1"}
Procs == Creators \cup Sweepers \cup Retriers

\* how a create call is reached: "http", the POST /notifications/ route
\* behind the NotificationCreate schema; "async", a direct call of
\* create_and_send_notification; "sync", create_and_send_notification_sync,
\* called by the scheduler jobs and by NotificationScheduler.schedule_notification,
\* which passes its arguments on unchanged
Paths == {"http", "async", "sync"}

\* the callers told apart where the store fails: "schedule" is
\* NotificationScheduler.schedule_notification around
\* create_and_send_notification_sync
PersistPaths == Paths \cup {"schedule"}

\* what the push provider answers to one send
Outcomes == {"ok", "error", "unregistered"}

ProcIdle(kind) ==
    [kind |-> kind, pc |-> "idle", path |-> "", user_id |-> 0, sf |-> NULL,
     nid |-> 0, tok |-> "",
     attempted |-> FALSE, send_result |-> "none", outcome |-> "none",
     ret_sent_at |-> NULL, pending |-> <<>>, i |-> 0, sent_count |-> 0,
     sent_ids |-> {}, tried |-> {}, prev_failed |-> {}]

KindOf(p) == IF p \in Creators THEN "creator" ELSE "sweeper"

\* the synchronous send path (FCMService._send_notification_sync) is taken by
\* the sweep and by create_and_send_notification_sync
IsSync(q) == q.kind = "sweeper" \/ q.path \in {"sync", "schedule"}

\* the validator accepting a schedule time equal to the current time
ValidateScheduledAtLax(v, t) == ~(v # NULL /\ v < t)

\* NotificationCreate.validate_scheduled_at: TRUE when the value is accepted
ValidateScheduledAt(v, t) == ~(v # NULL /\ v <= t)

\* the immediate-send test sending only what is strictly overdue
IsDueNowStrict(sf, t) == sf = NULL \/ sf < t

\* "if not scheduled_for or scheduled_for <= get_current_time()"
IsDueNow(sf, t) == sf = NULL \/ sf <= t

\* a sweep filter that does not look at sent_at
SweepFilterIgnoresSent(n, t) ==
    /\ n.scheduled_for # NULL
    /\ n.scheduled_for <= t

\* the sweep's filter: scheduled_for <= :current_time AND sent_at IS NULL.
\* In SQL a comparison with NULL is not true, so a NULL scheduled_for fails it.
SweepFilter(n, t) ==
    /\ n.scheduled_for # NULL
    /\ n.scheduled_for <= t
    /\ n.sent_at = NULL

Range(f) == {f[x] : x \in DOMAIN f}

\* a row of user_notifications as UserNotification(...) stores it: is_read
\* defaults to false, read_at and sent_at to NULL
NewNotification(u, sf) ==
    [user_id |-> u, scheduled_for |-> sf, sent_at |-> NULL,
     is_read |-> FALSE, read_at |-> NULL]

\* Query.all() without ORDER BY: the matching ids in any order
Orders(S) == {f \in [1..Cardinality(S) -> S] : Range(f) = S}

\* a create call whose failed delivery is raised to the caller
CreatorAfterSendRaise(q, success, result, t) ==
    [q EXCEPT !.pc = "done",
              !.outcome = IF success THEN "returned" ELSE "raised",
              !.send_result = result,
              !.ret_sent_at = IF success THEN t ELSE NULL]

\* the create call after _send_notification[_sync] came back: the result is
\* ignored and the notification object is returned
CreatorAfterSend(q, success, result, t) ==
    [q EXCEPT !.pc = "done", !.outcome = "returned", !.send_result = result,
              !.ret_sent_at = IF success THEN t ELSE NULL]

\* a sweep that gives up at the first notification whose delivery failed
SweeperAfterSendAbort(q, success, result) ==
    LET r == [q EXCEPT
                !.send_result = result,
                !.sent_count = q.sent_count + (IF success THEN 1 ELSE 0),
                !.sent_ids = IF success THEN q.sent_ids \cup {q.nid}
                                        ELSE q.sent_ids]
    IN IF success /\ q.i < Len(q.pending)
       THEN [r EXCEPT !.i = q.i + 1, !.nid = q.pending[q.i + 1],
                      !.pc = "token", !.tok = ""]
       ELSE [r EXCEPT !.pc = "done", !.outcome = "returned"]

\* the sweep after _send_notification_sync came back: count a success, then
\* take the next pending notification or return sent_count
SweeperAfterSend(q, success, result) ==
    LET r == [q EXCEPT
                !.send_result = result,
                !.sent_count = q.sent_count + (IF success THEN 1 ELSE 0),
                !.sent_ids = IF success THEN q.sent_ids \cup {q.nid}
                                        ELSE q.sent_ids]
    IN IF q.i < Len(q.pending)
       THEN [r EXCEPT !.i = q.i + 1, !.nid = q.pending[q.i + 1],
                      !.pc = "token", !.tok = ""]
       ELSE [r EXCEPT !.pc = "done", !.outcome = "returned"]

AfterSend(q, success, result, t) ==
    IF q.kind = "creator" THEN CreatorAfterSend(q, success, result, t)
                          ELSE SweeperAfterSend(q, success, result)

\* a create request arrives; on the HTTP route the schema validates it first
\* (a request the schema rejects stores nothing and is always possible)
CreateCall(p, path, u, sf) ==
    /\ proc[p].pc = "idle"
    /\ \/ Len(notifs) < MaxNotifs
       \/ path = "http" /\ ~ValidateScheduledAt(sf, now)
    /\ proc' = [proc EXCEPT ![p] =
         IF path = "http" /\ ~ValidateScheduledAt(sf, now)
         THEN [ProcIdle("creator") EXCEPT !.pc = "done", !.path = path,
                 !.user_id = u, !.sf = sf, !.outcome = "rejected"]
         ELSE [ProcIdle("creator") EXCEPT !.pc = "commit", !.path = path,
                 !.user_id = u, !.sf = sf]]
    /\ UNCHANGED <<now, tokens, nextTokId, last, reg, auxVars, notifs, delivered>>

\* UserNotification(...); db.add; db.commit; db.refresh
CreateCommit(p) ==
    /\ proc[p].pc = "commit"
    /\ notifs' = Append(notifs, NewNotification(proc[p].user_id, proc[p].sf))
    /\ proc' = [proc EXCEPT ![p].nid = Len(notifs) + 1, ![p].pc = "check"]
    /\ UNCHANGED <<now, tokens, nextTokId, last, reg, auxVars, delivered>>

\* what the caller of the entry point sees when the create raises: the
\* service functions roll back and re-raise, the route turns the exception
\* into a 500 response, schedule_notification logs it and returns
OnStoreFailure(path) == IF path = "schedule" THEN "swallowed" ELSE "raised"

\* db.add / db.commit raises: db.rollback(), the error is logged and
\* re-raised; no row is stored and the send is never reached
CreateStoreFails(p) ==
    /\ proc[p].pc = "commit"
    /\ proc' = [proc EXCEPT ![p].pc = "done",
                            ![p].outcome = OnStoreFailure(proc[p].path)]
    /\ UNCHANGED <<now, tokens, nextTokId, last, reg, auxVars, notifs, delivered>>

\* the immediate-send test, against a fresh reading of the clock
CreateCheck(p) ==
    /\ proc[p].pc = "check"
    /\ proc' = [proc EXCEPT ![p] =
         IF IsDueNow(proc[p].sf, now)
         THEN [proc[p] EXCEPT !.pc = "token"]
         ELSE [proc[p] EXCEPT !.pc = "done", !.outcome = "returned"]]
    /\ UNCHANGED <<now, tokens, nextTokId, last, reg, auxVars, notifs, delivered>>

\* _send_notification[_sync] starts: FCMService.get_user_token, the first
\* row of the user; without a token the send returns False
SendGetToken(p) ==
    /\ proc[p].pc = "token"
    /\ \E f \in First(UserRows(tokens, notifs[proc[p].nid].user_id)) :
         proc' = [proc EXCEPT ![p] =
           IF f = {}
           THEN AfterSend([proc[p] EXCEPT !.attempted = TRUE,
                             !.tried = proc[p].tried \cup {proc[p].nid}],
                          FALSE, "no_token", now)
           ELSE [proc[p] EXCEPT !.attempted = TRUE, !.pc = "send",
                                !.tried = proc[p].tried \cup {proc[p].nid},
                                !.tok = (CHOOSE r \in f : TRUE).token]]
    /\ UNCHANGED <<now, tokens, nextTokId, last, reg, auxVars, notifs, delivered>>

\* the cleanup running for every provider error
TokensAfterAnyError(o, q, tb, u) ==
    IF o \in {"unregistered", "error"} /\ IsSync(q)
    THEN tb \ ExistingRows(tb, u, q.tok)
    ELSE tb

\* fcm_tokens after the provider answered o to a send for user u: only the
\* synchronous send has a handler for UnregisteredError, which calls
\* remove_user_token; every other exception, and UnregisteredError on the
\* asynchronous send, is logged and nothing else
TokensAfterSend(o, q, tb, u) ==
    IF o = "unregistered" /\ IsSync(q)
    THEN tb \ ExistingRows(tb, u, q.tok)
    ELSE tb

\* a send path that takes every answer of the provider for a success
SendProviderAnyAnswerOk(p) ==
    /\ proc[p].pc = "send"
    /\ \E o \in Outcomes :
         \/ /\ o = "ok"
            /\ delivered' = delivered \cup {proc[p].nid}
            /\ proc' = [proc EXCEPT ![p].pc = "mark"]
            /\ UNCHANGED tokens
         \/ /\ o \in {"error", "unregistered"}
            /\ tokens' = TokensAfterSend(o, proc[p], tokens,
                                         notifs[proc[p].nid].user_id)
            /\ proc' = [proc EXCEPT ![p].pc = "mark"]
            /\ UNCHANGED delivered
    /\ UNCHANGED <<now, nextTokId, last, reg, auxVars, notifs>>

\* messaging.send answers.  Any exception makes the send return False; on
\* the synchronous path UnregisteredError first removes the (user, token) rows.
SendProvider(p) ==
    /\ proc[p].pc = "send"
    /\ \E o \in Outcomes :
         \/ /\ o = "ok"
            /\ delivered' = delivered \cup {proc[p].nid}
            /\ proc' = [proc EXCEPT ![p].pc = "mark"]
            /\ UNCHANGED tokens
         \/ /\ o \in {"error", "unregistered"}
            /\ tokens' = TokensAfterSend(o, proc[p], tokens,
                                         notifs[proc[p].nid].user_id)
            /\ proc' = [proc EXCEPT ![p] = AfterSend(proc[p], FALSE, o, now)]
            /\ UNCHANGED delivered
    /\ UNCHANGED <<now, nextTokId, last, reg, auxVars, notifs>>

\* messaging.send does not return: the code sets no timeout for the call,
\* which runs on the thread of the event loop
SendStall(p) ==
    /\ proc[p].pc = "send"
    /\ proc' = [proc EXCEPT ![p].pc = "stalled"]
    /\ UNCHANGED <<now, tokens, nextTokId, last, reg, auxVars, notifs, delivered>>

\* notification.sent_at = get_current_time(); db.commit(): an UPDATE by
\* primary key, whatever sent_at holds by then
SendMark(p) ==
    /\ proc[p].pc = "mark"
    /\ notifs' = [notifs EXCEPT ![proc[p].nid].sent_at = now]
    /\ proc' = [proc EXCEPT ![p] = AfterSend(proc[p], TRUE, "ok", now)]
    /\ UNCHANGED <<now, tokens, nextTokId, last, reg, auxVars, delivered>>

\* the create call has returned; the next request can come
CreateReturn(p) ==
    /\ p \in Creators
    /\ proc[p].pc = "done"
    /\ proc' = [proc EXCEPT ![p] = ProcIdle("creator")]
    /\ UNCHANGED <<now, tokens, nextTokId, last, reg, auxVars, notifs, delivered>>

\* send_scheduled_notifications_sync starts: the query for what is pending
SweepQuery(p) ==
    /\ p \in Sweepers \cup Retriers
    /\ proc[p].pc = "idle"
    /\ \E ord \in Orders({n \in DOMAIN notifs : SweepFilter(notifs[n], now)}) :
         proc' = [proc EXCEPT ![p] =
           IF Len(ord) = 0
           THEN [proc[p] EXCEPT !.pc = "done", !.outcome = "returned"]
           ELSE [proc[p] EXCEPT !.pc = "token", !.pending = ord, !.i = 1,
                                !.nid = ord[1]]]
    /\ UNCHANGED <<now, tokens, nextTokId, last, reg, auxVars, notifs, delivered>>

\* create_and_send_notification[_sync] called with a schedule time still
\* ahead when the call reads the clock: the record is stored, nothing is
\* sent, the call returns
ScheduleFutureUpTo(u, sf, cap) ==
    /\ Len(notifs) < cap
    /\ ~IsDueNow(sf, now)
    /\ notifs' = Append(notifs, NewNotification(u, sf))
    /\ UNCHANGED <<now, tokens, nextTokId, last, reg, auxVars, proc, delivered>>

ScheduleFuture(u, sf) == ScheduleFutureUpTo(u, sf, MaxNotifs)

\* the sweep has returned sent_count; the job waits for its next trigger
\* (for a followed instance prev_failed remembers which notifications this
\* run tried and did not send; the code keeps no such record)
SweepReturn(p) ==
    /\ p \in Sweepers \cup Retriers
    /\ proc[p].pc = "done"
    /\ proc' = [proc EXCEPT ![p] =
         [ProcIdle("sweeper") EXCEPT
            !.prev_failed = IF p \in Retriers
                            THEN proc[p].tried \ proc[p].sent_ids
                            ELSE {}]]
    /\ UNCHANGED <<now, tokens, nextTokId, last, reg, auxVars, notifs, delivered>>

\* ------------------------------------------------ notifications: mark read
\* the last mark-read call run to completion and what it returned
ReadCall(op, u, n, ok, count) ==
    [op |-> op, user_id |-> u, nid |-> n, ok |-> ok, count |-> count]

\* the row lookup dropping the user_id condition
OwnedByAnyone(ns, n, u) == n \in DOMAIN ns

\* filter(UserNotification.id == :n, UserNotification.user_id == :u).first()
OwnedBy(ns, n, u) == n \in DOMAIN ns /\ ns[n].user_id = u

\* the bulk update dropping the is_read condition
UnreadOfAnyState(ns, u) == {n \in DOMAIN ns : ns[n].user_id = u}

\* filter(UserNotification.user_id == :u, UserNotification.is_read == False)
UnreadOf(ns, u) == {n \in DOMAIN ns : ns[n].user_id = u /\ ~ns[n].is_read}

\* NotificationService.mark_notification_as_read[_sync]
MarkNotificationAsRead(n, u) ==
    /\ IF OwnedBy(notifs, n, u)
       THEN /\ notifs' = [notifs EXCEPT ![n].is_read = TRUE,
                                        ![n].read_at = now]
            /\ last' = ReadCall("mark_read", u, n, TRUE, 0)
       ELSE /\ notifs' = notifs
            /\ last' = ReadCall("mark_read", u, n, FALSE, 0)
    /\ UNCHANGED <<now, tokens, nextTokId, reg, proc, delivered, auxVars>>

\* NotificationService.mark_all_notifications_as_read[_sync]: one bulk
\* UPDATE returning the number of rows matched, then commit
MarkAllNotificationsAsRead(u) ==
    /\ notifs' = [n \in DOMAIN notifs |->
                    IF n \in UnreadOf(notifs, u)
                    THEN [notifs[n] EXCEPT !.is_read = TRUE, !.read_at = now]
                    ELSE notifs[n]]
    /\ last' = ReadCall("mark_all", u, 0, TRUE,
                        Cardinality(UnreadOf(notifs, u)))
    /\ UNCHANGED <<now, tokens, nextTokId, reg, proc, delivered, auxVars>>

\* ------------------------------------- send_multicast_push_notification
McastIdle ==
    [pc |-> "idle", n |-> 0, batches |-> <<>>, k |-> 0, calls |-> 0,
     resp |-> <<>>, raised |-> FALSE, success_count |-> 0, ret |-> 0]

Min(a, b) == IF a <= b THEN a ELSE b

\* bool(...) as the integer Python compares it with: True == 1, False == 0
PyBool(b) == IF b THEN 1 ELSE 0

RECURSIVE BatchesFrom(_, _)
\* [tokens[i:i + 500] for i in range(i, n, 500)]: each slice as the positions
\* lo..hi of the token list it holds (positions count from 1)
BatchesFrom(i, n) ==
    IF i >= n THEN <<>>
    ELSE <<[lo |-> i + 1, hi |-> Min(i + BatchLimit, n)]>>
           \o BatchesFrom(i + BatchLimit, n)

\* token_batches for a query result of n rows
TokenBatches(n) == BatchesFrom(0, n)

\* the number of active token rows the query can return
McastSizes ==
    {x \in {k * BatchLimit + d : k \in 0..MaxBatches, d \in {-1, 0, 1}} :
       x >= 0}

\* response.success_count for a batch of sz tokens
SuccessCounts(sz) == {0, 1, sz}

\* the call starts: the token query returns n rows; none: return False
McastCall(n) ==
    /\ mcast.pc = "idle"
    /\ mcast' = IF n = 0
                THEN [McastIdle EXCEPT !.pc = "done", !.ret = PyBool(FALSE)]
                ELSE [McastIdle EXCEPT !.pc = "loop", !.n = n,
                                       !.batches = TokenBatches(n), !.k = 1]
    /\ UNCHANGED <<now, tokens, nextTokId, last, reg, notifVars, sched, digest, subs>>

\* messaging.send_multicast for the current batch answers or raises; an
\* exception leaves the loop for the function's handler, which returns False
McastSendBatch ==
    /\ mcast.pc = "loop"
    /\ mcast.k <= Len(mcast.batches)
    /\ LET b == mcast.batches[mcast.k] IN
       \/ \E sc \in SuccessCounts(b.hi - b.lo + 1) :
            mcast' = [mcast EXCEPT !.calls = mcast.calls + 1,
                                   !.resp = Append(mcast.resp, sc),
                                   !.success_count = mcast.success_count + sc,
                                   !.k = mcast.k + 1]
       \/ mcast' = [mcast EXCEPT !.calls = mcast.calls + 1,
                                 !.raised = TRUE,
                                 !.pc = "done",
                                 !.ret = PyBool(FALSE)]
    /\ UNCHANGED <<now, tokens, nextTokId, last, reg, notifVars, sched, digest, subs>>

\* the loop is over: return bool(success_count > 0)
McastFinish ==
    /\ mcast.pc = "loop"
    /\ mcast.k > Len(mcast.batches)
    /\ mcast' = [mcast EXCEPT !.pc = "done",
                              !.ret = PyBool(mcast.success_count > 0)]
    /\ UNCHANGED <<now, tokens, nextTokId, last, reg, notifVars, sched, digest, subs>>

\* the caller has the result; the next call can come
McastReturn ==
    /\ mcast.pc = "done"
    /\ mcast' = McastIdle
    /\ UNCHANGED <<now, tokens, nextTokId, last, reg, notifVars, sched, digest, subs>>

\* --------------------------------- NotificationScheduler: per-user test jobs
JobKinds == {"test_notifications", "test_updates"}

\* interval_seconds: the default and one other value
Intervals == {30, 60}

\* f'{kind}_{user_id}'
JobId(kind, u) == <<kind, u>>

NoCall == [op |-> "none", kind |-> "", user_id |-> 0, interval |-> 0,
           created |-> 0]

\* a call of the scheduler's test-job interface, or one firing of a job,
\* with the number of notifications the firing created
JobCall(op, kind, u, iv, created) ==
    [op |-> op, kind |-> kind, user_id |-> u, interval |-> iv,
     created |-> created]

\* the singleton after __new__: no test user, no test job
\* (stopped: the job ids a stop call has returned for, with no start call
\* for the same id since)
SchedInit == [test_users |-> {}, jobs |-> {}, call |-> NoCall, stopped |-> {}]

\* scheduler.add_job(..., id=job_id, replace_existing=True)
AddJob(js, id, iv) ==
    {j \in js : j.id # id} \cup {[id |-> id, interval |-> iv]}

\* scheduler.remove_job(job_id); a missing job raises JobLookupError, which
\* the caller logs
RemoveJob(js, id) == {j \in js : j.id # id}

\* start_test_notifications / start_test_updates: the two methods differ in
\* the job id prefix and the job function only
StartTestJob(kind, u, iv) ==
    /\ sched' = IF u \in sched.test_users
                THEN [sched EXCEPT !.call = JobCall("start", kind, u, iv, 0),
                                   !.stopped = @ \ {JobId(kind, u)}]
                ELSE [test_users |-> sched.test_users \cup {u},
                      jobs |-> AddJob(sched.jobs, JobId(kind, u), iv),
                      call |-> JobCall("start", kind, u, iv, 0),
                      stopped |-> sched.stopped \ {JobId(kind, u)}]
    /\ UNCHANGED <<now, tokens, nextTokId, last, reg, notifVars, mcast, digest, subs>>

\* stop_test_notifications / stop_test_updates
StopTestJob(kind, u) ==
    /\ sched' = IF u \notin sched.test_users
                THEN [sched EXCEPT !.call = JobCall("stop", kind, u, 0, 0),
                                   !.stopped = @ \cup {JobId(kind, u)}]
                ELSE [test_users |-> sched.test_users \ {u},
                      jobs |-> RemoveJob(sched.jobs, JobId(kind, u)),
                      call |-> JobCall("stop", kind, u, 0, 0),
                      stopped |-> sched.stopped \cup {JobId(kind, u)}]
    /\ UNCHANGED <<now, tokens, nextTokId, last, reg, notifVars, mcast, digest, subs>>

StartTestNotifications(u, iv) == StartTestJob("test_notifications", u, iv)

StopTestNotifications(u) == StopTestJob("test_notifications", u)

StartTestUpdates(u, iv) == StartTestJob("test_updates", u, iv)

StopTestUpdates(u) == StopTestJob("test_updates", u)

\* create_and_send_notification_sync(user_id=u) without scheduled_for, run
\* to completion on st = [notifs, tokens, delivered]: the row is stored, then
\* sent to the token row f found for the user (none: no send), the provider
\* answering o
SyncCreateAndSend(st, u, f, o, t) ==
    LET nid == Len(st.notifs) + 1
        row == NewNotification(u, NULL)
    IN IF f = {}
       THEN [st EXCEPT !.notifs = Append(st.notifs, row)]
       ELSE IF o = "ok"
       THEN [st EXCEPT !.notifs = Append(st.notifs,
                                         [row EXCEPT !.sent_at = t]),
                       !.delivered = st.delivered \cup {nid}]
       ELSE [st EXCEPT !.notifs = Append(st.notifs, row),
                       !.tokens = IF o = "unregistered"
                                  THEN st.tokens \ ExistingRows(st.tokens, u,
                                         (CHOOSE r \in f : TRUE).token)
                                  ELSE st.tokens]

\* the notifications one firing creates: _send_test_notification one,
\* _send_test_updates a daily update and a weather update
CreatedPerFiring(kind) == IF kind = "test_notifications" THEN 1 ELSE 2

\* a registered test job fires: _send_test_notification / _send_test_updates.
\* The job function has no await: it runs to its end before anything else
\* on the event loop.  For a user not in test_users it creates nothing
\* (_send_test_notification then calls stop_test_notifications, which
\* returns at once for such a user).
FireTestJob(kind, u) ==
    /\ \E j \in sched.jobs : j.id = JobId(kind, u)
    /\ IF u \notin sched.test_users
       THEN /\ sched' = [sched EXCEPT
                           !.call = JobCall("fire", kind, u, 0, 0),
                           !.stopped = IF kind = "test_notifications"
                                       THEN @ \cup {JobId(kind, u)} ELSE @]
            /\ UNCHANGED <<notifs, tokens, delivered>>
       ELSE /\ Len(notifs) + CreatedPerFiring(kind) <= MaxTestNotifs
            /\ sched' = [sched EXCEPT
                 !.call = JobCall("fire", kind, u, 0, CreatedPerFiring(kind))]
            /\ \E f1 \in First(UserRows(tokens, u)), o1 \in Outcomes :
                 LET st0 == [notifs |-> notifs, tokens |-> tokens,
                             delivered |-> delivered]
                     st1 == SyncCreateAndSend(st0, u, f1, o1, now)
                 IN IF kind = "test_notifications"
                    THEN /\ notifs' = st1.notifs
                         /\ tokens' = st1.tokens
                         /\ delivered' = st1.delivered
                    ELSE \E f2 \in First(UserRows(st1.tokens, u)),
                            o2 \in Outcomes :
                           LET st2 == SyncCreateAndSend(st1, u, f2, o2, now)
                           IN /\ notifs' = st2.notifs
                              /\ tokens' = st2.tokens
                              /\ delivered' = st2.delivered
    /\ UNCHANGED <<now, nextTokId, last, reg, proc, mcast, digest, subs>>

\* ------------------------------------------ send_daily_crop_updates_sync
\* What the run reads about one user: the two flags of notification_settings,
\* users.current_crop_tracking_id, the user_crop_tracking row it names, the
\* weeks row of the tracked crop and week, the week_translations and
\* crop_translations rows in users.preferred_language, the week_translations
\* row in the default language, and weeks.image_urls (a nullable column).
UserDataOk ==
    [daily_updates |-> TRUE, push_notifications |-> TRUE,
     current_crop_tracking_id |-> TRUE, crop_tracking |-> TRUE,
     current_week |-> TRUE, week_translation |-> TRUE,
     week_translation_default |-> TRUE, crop_translation |-> TRUE,
     image_urls |-> TRUE]

\* the user rows the runs are checked on: complete, or one thing missing
UserData ==
    {UserDataOk,
     [UserDataOk EXCEPT !.daily_updates = FALSE],
     [UserDataOk EXCEPT !.push_notifications = FALSE],
     [UserDataOk EXCEPT !.current_crop_tracking_id = FALSE],
     [UserDataOk EXCEPT !.crop_tracking = FALSE],
     [UserDataOk EXCEPT !.current_week = FALSE],
     [UserDataOk EXCEPT !.week_translation = FALSE],
     [UserDataOk EXCEPT !.crop_translation = FALSE],
     [UserDataOk EXCEPT !.image_urls = FALSE]}

DigestIdle ==
    [pc |-> "idle", data |-> <<>>, users |-> <<>>, i |-> 0, sent_count |-> 0,
     skipped |-> {}, errors |-> {}, ret |-> NULL]

\* users_query: both flags of notification_settings are true
UsersQuery(d) ==
    {u \in DOMAIN d : d[u].daily_updates /\ d[u].push_notifications}

\* the body of the loop up to the create call, for one user row:
\*   "continue" one of the four `continue` statements is reached,
\*   "raise"    crop_translation.name on None, or len(None) of image_urls,
\*   "create"   create_and_send_notification_sync is called
DigestStep(r) ==
    IF ~r.current_crop_tracking_id THEN "continue"
    ELSE IF ~r.crop_tracking THEN "continue"
    ELSE IF ~r.current_week THEN "continue"
    ELSE IF ~r.week_translation THEN "continue"
    ELSE IF ~r.crop_translation THEN "raise"
    ELSE IF ~r.image_urls THEN "raise"
    ELSE "create"

\* the run starts on the users table d: users_query.all(), in the arbitrary
\* order of a query without ORDER BY; no user selected: return 0
DigestStart(d) ==
    /\ digest.pc = "idle"
    /\ \E o \in Orders(UsersQuery(d)) :
         digest' = IF UsersQuery(d) = {}
                   THEN [DigestIdle EXCEPT !.pc = "done", !.data = d,
                                           !.ret = 0]
                   ELSE [DigestIdle EXCEPT !.pc = "loop", !.data = d,
                                           !.users = o, !.i = 1]
    /\ UNCHANGED <<now, tokens, nextTokId, last, reg, notifVars, mcast,
                   sched, subs>>

\* one iteration of `for user in users_query.all()`; its try/except logs
\* whatever the body raises and goes on to the next user
DigestUser ==
    /\ digest.pc = "loop"
    /\ digest.i <= Len(digest.users)
    /\ LET u == digest.users[digest.i]
           step == DigestStep(digest.data[u])
       IN IF step = "create"
          THEN \E f \in First(UserRows(tokens, u)), o \in Outcomes :
                 LET st == SyncCreateAndSend(
                             [notifs |-> notifs, tokens |-> tokens,
                              delivered |-> delivered], u, f, o, now)
                 IN /\ notifs' = st.notifs
                    /\ tokens' = st.tokens
                    /\ delivered' = st.delivered
                    /\ digest' = [digest EXCEPT !.i = @ + 1,
                                                !.sent_count = @ + 1]
          ELSE /\ digest' = [digest EXCEPT
                    !.i = @ + 1,
                    !.skipped = IF step = "continue" THEN @ \cup {u} ELSE @,
                    !.errors = IF step = "raise" THEN @ \cup {u} ELSE @]
               /\ UNCHANGED <<notifs, tokens, delivered>>
    /\ UNCHANGED <<now, nextTokId, last, reg, proc, mcast, sched, subs>>

\* return sent_count
DigestReturn ==
    /\ digest.pc = "loop"
    /\ digest.i > Len(digest.users)
    /\ digest' = [digest EXCEPT !.pc = "done", !.ret = digest.sent_count]
    /\ UNCHANGED <<now, tokens, nextTokId, last, reg, notifVars, mcast,
                   sched, subs>>

\* ------------------------------------------------------- topics (fcm.py)
TopicNames == {"weather", "market"}

\* what messaging.subscribe_to_topic does: some token subscribed, none
\* subscribed (success_count = 0), or an exception
TopicAnswers == {"ok", "zero", "raise"}

NoTopicCall ==
    [op |-> "none", user_id |-> 0, topic |-> "", ret |-> FALSE,
     attempted |-> FALSE, used |-> {}]

TopicCall(op, u, name, ret, attempted, used) ==
    [op |-> op, user_id |-> u, topic |-> name, ret |-> ret,
     attempted |-> attempted, used |-> used]

\* notification_topics by name (a unique column); user_topic_subscriptions
\* has no primary key, so its rows are told apart here by an insertion number
SubsInit == [topics |-> {}, rows |-> {}, nextRid |-> 1, call |-> NoTopicCall]

\* user.subscribed_topics restricted to one topic: the association rows
SubscribedRows(rows, u, name) ==
    {r \in rows : r.user_id = u /\ r.topic = name}

\* the tokens handed to the provider: the user's rows with is_active true
\* (the column defaults to true and nothing ever clears it)
ActiveTokens(tb, u) == {r.token : r \in UserRows(tb, u)}

\* create_topic: the name is unique, a second insert of it fails
CreateTopic(name) ==
    /\ name \notin subs.topics
    /\ subs' = [subs EXCEPT !.topics = @ \cup {name},
                            !.call = TopicCall("create", 0, name, TRUE,
                                               FALSE, {})]
    /\ UNCHANGED <<now, tokens, nextTokId, last, reg, notifVars, mcast,
                   sched, digest>>

\* subscribe_to_topic appending the association row without looking at
\* user.subscribed_topics first
SubscribeToTopicAppendAlways(u, name) ==
    /\ IF name \notin subs.topics
       THEN subs' = [subs EXCEPT
                       !.call = TopicCall("subscribe", u, name, FALSE,
                                          FALSE, {})]
       ELSE /\ subs.nextRid <= MaxSubRows
            /\ \E a \in TopicAnswers :
                 LET tl == ActiveTokens(tokens, u)
                 IN subs' = [subs EXCEPT
                      !.rows = @ \cup {[rid |-> subs.nextRid, user_id |-> u,
                                        topic |-> name]},
                      !.nextRid = @ + 1,
                      !.call = TopicCall("subscribe", u, name,
                                         tl = {} \/ a = "ok", tl # {}, tl)]
    /\ UNCHANGED <<now, tokens, nextTokId, last, reg, notifVars, mcast,
                   sched, digest>>

\* subscribe_to_topic(db, u, name), run to completion (a coroutine without
\* an await).  The user row exists.  A topic that is not found: False.
\* Already subscribed: True, the provider is not called.  Otherwise the row
\* is appended and committed, and then the provider is called with the
\* user's active tokens, if any: its answer decides the result.
SubscribeToTopic(u, name) ==
    /\ IF name \notin subs.topics
       THEN subs' = [subs EXCEPT
                       !.call = TopicCall("subscribe", u, name, FALSE,
                                          FALSE, {})]
       ELSE IF SubscribedRows(subs.rows, u, name) # {}
       THEN subs' = [subs EXCEPT
                       !.call = TopicCall("subscribe", u, name, TRUE,
                                          FALSE, {})]
       ELSE /\ subs.nextRid <= MaxSubRows
            /\ \E a \in TopicAnswers :
                 LET tl == ActiveTokens(tokens, u)
                 IN subs' = [subs EXCEPT
                      !.rows = @ \cup {[rid |-> subs.nextRid, user_id |-> u,
                                        topic |-> name]},
                      !.nextRid = @ + 1,
                      !.call = TopicCall("subscribe", u, name,
                                         tl = {} \/ a = "ok", tl # {}, tl)]
    /\ UNCHANGED <<now, tokens, nextTokId, last, reg, notifVars, mcast,
                   sched, digest>>

\* unsubscribe_from_topic(db, u, name), run to completion: the association
\* of the user with the topic is removed, then the provider is called with
\* the user's active tokens, if any
UnsubscribeFromTopic(u, name) ==
    /\ IF name \notin subs.topics
       THEN subs' = [subs EXCEPT
                       !.call = TopicCall("unsubscribe", u, name, FALSE,
                                          FALSE, {})]
       ELSE \E a \in TopicAnswers :
              LET tl == ActiveTokens(tokens, u)
              IN subs' = [subs EXCEPT
                   !.rows = @ \ SubscribedRows(subs.rows, u, name),
                   !.call = TopicCall("unsubscribe", u, name,
                                      tl = {} \/ a = "ok", tl # {}, tl)]
    /\ UNCHANGED <<now, tokens, nextTokId, last, reg, notifVars, mcast,
                   sched, digest>>

\* ----------------------------------------------------------- specifications
NotifInit ==
    /\ notifs = <<>>
    /\ proc = [p \in Procs |-> ProcIdle(KindOf(p))]
    /\ delivered = {}

AuxInit ==
    /\ mcast = McastIdle
    /\ sched = SchedInit
    /\ digest = DigestIdle
    /\ subs = SubsInit

Init ==
    /\ now = 0
    /\ tokens = {}
    /\ nextTokId = 1
    /\ last = Idle
    /\ reg = [w \in Workers |-> RegIdle]
    /\ NotifInit
    /\ AuxInit

Next ==
    \/ \E u \in Users, t \in Tokens, d \in DevTypes : RegisterToken(u, t, d)
    \/ \E u \in Users, t \in Tokens : UnregisterToken(u, t)
    \/ \E u \in Users : UnregisterAllUserTokens(u)
    \/ \E u \in Users, t \in Tokens : RemoveUserToken(u, t)
    \/ Tick

Spec == Init /\ [][Next]_vars

NextRace ==
    \/ \E w \in Workers, u \in Users, t \in Tokens, d \in DevTypes :
         RegCall(w, u, t, d)
    \/ \E w \in Workers : RegQueryExisting(w)
    \/ \E w \in Workers : RegUpdate(w)
    \/ \E w \in Workers : RegQueryOther(w)
    \/ \E w \in Workers : RegDeleteOther(w)
    \/ \E w \in Workers : RegInsert(w)
    \/ \E w \in Workers : RegRefresh(w)
    \/ \E w \in Workers : RegReturn(w)

\* last_used_at plays no part in the race: the clock stands still here
SpecRace == Init /\ [][NextRace]_vars

\* the device token of a user's one phone
DeviceOf(u) == IF u = 1 THEN "T1" ELSE "T2"

\* The registry the notification engine starts from: every user has
\* registered one device or none (what register_token / unregister_token
\* leave behind when each user owns one phone).
InitNotif ==
    /\ now = 0
    /\ \E S \in SUBSET Users :
         /\ \A u, v \in S : DeviceOf(u) = DeviceOf(v) => u = v
         /\ tokens = {NewRow(u, u, DeviceOf(u), "android", 0) : u \in S}
    /\ nextTokId = NumUsers + 1
    /\ last = Idle
    /\ reg = [w \in Workers |-> RegIdle]
    /\ NotifInit
    /\ AuxInit

\* one create call at a time racing the sweep of one instance
NextNotif ==
    \/ \E p \in Creators, path \in Paths, u \in Users,
          sf \in {NULL} \cup Times : CreateCall(p, path, u, sf)
    \/ \E p \in Creators : CreateCommit(p)
    \/ \E p \in Creators : CreateCheck(p)
    \/ \E p \in Creators \cup {"s1"} : SendGetToken(p)
    \/ \E p \in Creators \cup {"s1"} : SendProvider(p)
    \/ \E p \in Creators \cup {"s1"} : SendMark(p)
    \/ \E p \in Creators : CreateReturn(p)
    \/ SweepQuery("s1")
    \/ SweepReturn("s1")
    \/ Tick

SpecNotif == InitNotif /\ [][NextNotif]_vars

\* the sweeps of two instances over notifications scheduled ahead
NextSweep ==
    \/ \E u \in Users, sf \in Times : ScheduleFuture(u, sf)
    \/ \E p \in Sweepers : SweepQuery(p)
    \/ \E p \in Sweepers : SendGetToken(p)
    \/ \E p \in Sweepers : SendProvider(p)
    \/ \E p \in Sweepers : SendMark(p)
    \/ \E p \in Sweepers : SweepReturn(p)
    \/ Tick

SpecSweep == InitNotif /\ [][NextSweep]_vars

\* the sweep of one instance over up to MaxDue notifications scheduled ahead
NextOneSweep ==
    \/ \E u \in Users, sf \in Times : ScheduleFutureUpTo(u, sf, MaxDue)
    \/ SweepQuery("s1")
    \/ SendGetToken("s1")
    \/ SendProvider("s1")
    \/ SendMark("s1")
    \/ SweepReturn("s1")
    \/ Tick

SpecOneSweep == InitNotif /\ [][NextOneSweep]_vars

\* The store the mark-read calls start from: up to MaxReadNotifs unread
\* notifications of any users, as create calls for users without a device
\* leave them.
InitRead ==
    /\ now = 0
    /\ tokens = {}
    /\ nextTokId = 1
    /\ last = Idle
    /\ reg = [w \in Workers |-> RegIdle]
    /\ \E k \in 0..MaxReadNotifs :
         \E f \in [1..k -> Users] :
           notifs = [n \in 1..k |-> NewNotification(f[n], NULL)]
    /\ proc = [p \in Procs |-> ProcIdle(KindOf(p))]
    /\ delivered = {}
    /\ AuxInit

\* mark-read calls for existing and unknown notification ids
NextRead ==
    \/ \E n \in 1..(MaxReadNotifs + 1), u \in Users :
         MarkNotificationAsRead(n, u)
    \/ \E u \in Users : MarkAllNotificationsAsRead(u)
    \/ Tick

SpecRead == InitRead /\ [][NextRead]_vars

NextMcast ==
    \/ \E n \in McastSizes : McastCall(n)
    \/ McastSendBatch
    \/ McastFinish
    \/ McastReturn

SpecMcast == Init /\ [][NextMcast]_vars

NextJobs ==
    \/ \E u \in Users, iv \in Intervals : StartTestNotifications(u, iv)
    \/ \E u \in Users : StopTestNotifications(u)
    \/ \E u \in Users, iv \in Intervals : StartTestUpdates(u, iv)
    \/ \E u \in Users : StopTestUpdates(u)
    \/ \E k \in JobKinds, u \in Users : FireTestJob(k, u)

\* users with one device or none; the test jobs fire between the calls
SpecJobs == InitNotif /\ [][NextJobs]_vars

\* one run of the daily digest over a users table
NextDigest ==
    \/ \E d \in [Users -> UserData] : DigestStart(d)
    \/ DigestUser
    \/ DigestReturn

SpecDigest == InitNotif /\ [][NextDigest]_vars

\* topic calls of the requests, one after the other
NextTopics ==
    \/ \E name \in TopicNames : CreateTopic(name)
    \/ \E u \in Users, name \in TopicNames : SubscribeToTopic(u, name)
    \/ \E u \in Users, name \in TopicNames : UnsubscribeFromTopic(u, name)

SpecTopics == InitNotif /\ [][NextTopics]_vars


\* create calls on every path, the store failing or not
NextPersist ==
    \/ \E p \in Creators, path \in PersistPaths, u \in Users,
          sf \in {NULL} \cup Times : CreateCall(p, path, u, sf)
    \/ \E p \in Creators :
         \/ CreateCommit(p)
         \/ CreateStoreFails(p)
         \/ CreateCheck(p)
         \/ SendGetToken(p)
         \/ SendProvider(p)
         \/ SendMark(p)
         \/ CreateReturn(p)
    \/ Tick

SpecPersist == InitNotif /\ [][NextPersist]_vars

\* the steps of the sweep job: the interval trigger fires it every minute
\* and a run that has begun goes on to its end
SweepRuns(p) ==
    \/ SweepQuery(p)
    \/ SendGetToken(p)
    \/ SendProvider(p)
    \/ SendMark(p)
    \/ SweepReturn(p)

\* the provider accepts the send in progress
ProviderAccepts(p) == SendProvider(p) /\ delivered' # delivered

\* the sweep of one instance, run again and again, over up to MaxRetryDue
\* notifications scheduled ahead
NextRetry ==
    \/ \E u \in Users, sf \in Times : ScheduleFutureUpTo(u, sf, MaxRetryDue)
    \/ SweepQuery("r1")
    \/ SendGetToken("r1")
    \/ SendProvider("r1")
    \/ SendMark("r1")
    \/ SweepReturn("r1")
    \/ Tick

\* the sweep job keeps running, and a send that is attempted again and
\* again is not refused for ever
SpecRetry ==
    /\ InitNotif
    /\ [][NextRetry]_vars
    /\ WF_vars(SweepRuns("r1"))
    /\ SF_vars(ProviderAccepts("r1"))

\* the sweep of one instance when a provider call may hang
NextStall ==
    \/ \E u \in Users, sf \in Times : ScheduleFutureUpTo(u, sf, MaxDue)
    \/ SweepQuery("s1")
    \/ SendGetToken("s1")
    \/ SendProvider("s1")
    \/ SendStall("s1")
    \/ SendMark("s1")
    \/ SweepReturn("s1")
    \/ Tick

SpecStall ==
    /\ InitNotif
    /\ [][NextStall]_vars
    /\ WF_vars(SweepRuns("s1"))

\* a delivery, statement by statement, while other requests register and
\* unregister tokens (each of those run to completion)
NextDeliver ==
    \/ \E p \in Creators, path \in {"async", "sync"}, u \in Users :
         CreateCall(p, path, u, NULL)
    \/ \E p \in Creators :
         \/ CreateCommit(p)
         \/ CreateCheck(p)
         \/ SendGetToken(p)
         \/ SendProvider(p)
         \/ SendMark(p)
         \/ CreateReturn(p)
    \/ \E u \in Users, t \in Tokens, d \in DevTypes : RegisterToken(u, t, d)
    \/ \E u \in Users, t \in Tokens : UnregisterToken(u, t)

SpecDeliver == InitNotif /\ [][NextDeliver]_vars

\* ------------------------------------------------------------------- claims
\* C1: token exclusivity.  In every state reached by register_token,
\* unregister_token, unregister_all_user_tokens and remove_user_token calls
\* run to completion from an empty table, every token string has rows of at
\* most one user.
C1_TokenExclusivity ==
    \A t \in Tokens : Cardinality(Owners(tokens, t)) <= 1

\* a registration has just taken a token away from its previous owner
C1_Witness ==
    /\ last.op = "register"
    /\ last.evicted
    /\ Owners(tokens, last.token) = {last.user_id}

\* C2: two concurrent register_token calls for one token string by two
\* different users never both succeed leaving the token owned by both: when
\* both have finished, the token has rows of exactly one user.
C2_ConcurrentRegisterOneOwner ==
    (/\ \A w \in Workers : reg[w].pc = "done" /\ ~reg[w].raised
     /\ reg["w1"].token = reg["w2"].token
     /\ reg["w1"].user_id # reg["w2"].user_id)
    => Cardinality(Owners(tokens, reg["w1"].token)) = 1

\* C9: register_token is an idempotent upsert.  Registering a (user, token)
\* pair that is already registered leaves exactly one row for the pair and
\* adds none; that row carries the device type of this call, is active, has
\* last_used_at set to the time of this call, and is the record returned.
C9_IdempotentUpsert ==
    [][(/\ last'.op = "register"
        /\ now' = now
        /\ ExistingRows(tokens, last'.user_id, last'.token) # {})
       => /\ ExistingRows(tokens', last'.user_id, last'.token) = {last'.ret}
          /\ Cardinality(tokens') = Cardinality(tokens)
          /\ last'.ret.device_type = last'.device_type
          /\ last'.ret.is_active
          /\ last'.ret.last_used_at = now
          /\ \A e \in ExistingRows(tokens, last'.user_id, last'.token) :
                e.last_used_at <= last'.ret.last_used_at]_vars

\* a pair has been registered a second time, later and from another device
C9_Witness ==
    /\ last.op = "register"
    /\ last.updated
    /\ last.ret.last_used_at > 0
    /\ last.ret.device_type = "ios"
    /\ last.ret \in tokens

\* C10: token reassignment.  When user B registers a token that user A
\* holds, afterwards B is the only owner of the token, with exactly one
\* row, A has no row for it, and the rows of every other token (A's
\* included) are unchanged.
C10_Reassignment ==
    [][(/\ last'.op = "register"
        /\ now' = now
        /\ OtherRows(tokens, last'.user_id, last'.token) # {})
       => /\ Owners(tokens', last'.token) = {last'.user_id}
          /\ Cardinality(ExistingRows(tokens', last'.user_id, last'.token)) = 1
          /\ OtherRows(tokens', last'.user_id, last'.token) = {}
          /\ {r \in tokens' : r.token # last'.token}
               = {r \in tokens : r.token # last'.token}]_vars

\* B has taken a token from A while A keeps a row for another token
C10_Witness ==
    /\ last.op = "register"
    /\ last.evicted
    /\ \E r \in tokens : r.user_id # last.user_id /\ r.token # last.token

\* C3: a notification is never delivered twice by two sweeps.  When two runs
\* of send_scheduled_notifications_sync have both finished, no notification
\* was sent successfully by both, and the two returned sent counts together
\* do not exceed the number of notifications the runs found due; and a sweep
\* marks a notification sent only while its sent_at is still null.
C3_SweepsDeliverOnce ==
    /\ [](proc["s1"].pc = "done" /\ proc["s2"].pc = "done"
          => /\ proc["s1"].sent_ids \cap proc["s2"].sent_ids = {}
             /\ proc["s1"].sent_count + proc["s2"].sent_count
                  <= Cardinality(Range(proc["s1"].pending)
                                   \cup Range(proc["s2"].pending)))
    /\ [][\A p \in Sweepers :
            (proc[p].pc = "mark" /\ proc'[p].pc # "mark")
            => notifs[proc[p].nid].sent_at = NULL]_vars

\* C4: sent_at is set at most once per notification: once it is non-null no
\* step of a create call or of a sweep writes it again.
C4_SentAtWrittenOnce ==
    [][\A n \in DOMAIN notifs :
         notifs[n].sent_at # NULL
         => ~ \E p \in Procs : /\ proc[p].pc = "mark"
                               /\ proc[p].nid = n
                               /\ proc'[p].pc # "mark"]_vars

\* C5: every stored notification with sent_at null and scheduled_for null or
\* <= now, whose create call is over, is selected by the next run of
\* send_scheduled_notifications_sync.
C5_DueSelectedBySweep ==
    [][\A p \in Sweepers :
         (proc[p].pc = "idle" /\ proc'[p].pc # "idle")
         => \A n \in DOMAIN notifs :
              (/\ notifs[n].sent_at = NULL
               /\ notifs[n].scheduled_for = NULL
                    \/ notifs[n].scheduled_for <= now
               /\ \A c \in Creators : proc[c].nid = n => proc[c].pc = "done")
              => n \in Range(proc'[p].pending)]_vars

\* C6: the create call stores the notification before any delivery attempt,
\* and a failed delivery (no token, provider error, unregistered token)
\* neither removes the record nor is raised: the call returns the stored
\* notification with sent_at null, and the record stays in the store, unsent
\* unless a sweep has delivered it meanwhile.
C6_PersistThenBestEffortSend ==
    \A p \in Creators :
      /\ (proc[p].pc \in {"token", "send", "mark"} \/ proc[p].attempted)
         => /\ proc[p].nid \in DOMAIN notifs
            /\ notifs[proc[p].nid].user_id = proc[p].user_id
            /\ notifs[proc[p].nid].scheduled_for = proc[p].sf
      /\ (proc[p].pc = "done"
          /\ proc[p].send_result \in {"no_token", "error", "unregistered"})
         => /\ proc[p].outcome = "returned"
            /\ proc[p].ret_sent_at = NULL
            /\ proc[p].nid \in DOMAIN notifs
            /\ notifs[proc[p].nid].sent_at = NULL
                 \/ proc[p].nid \in delivered

\* a create call has returned after its delivery failed at the provider
C6_Witness ==
    \E p \in Creators :
      /\ proc[p].pc = "done"
      /\ proc[p].send_result = "error"
      /\ proc[p].outcome = "returned"
      /\ notifs[proc[p].nid].sent_at = NULL

\* C7: a create call whose scheduled_for is null or not after the clock it
\* reads enters the send before it returns, and the notification ends sent
\* or stays stored unsent; a create call whose scheduled_for is still ahead
\* of the clock it reads makes no attempt and changes nothing more; and no
\* notification carries a sent_at earlier than its scheduled_for.
C7_ImmediateOrDeferred ==
    /\ [](\A p \in Creators :
            (proc[p].pc = "done" /\ proc[p].outcome = "returned")
            => /\ proc[p].nid \in DOMAIN notifs
               /\ proc[p].attempted
                  => /\ proc[p].sf = NULL \/ proc[p].sf <= now
                     /\ proc[p].send_result # "none"
                     /\ proc[p].send_result = "ok"
                        => /\ notifs[proc[p].nid].sent_at # NULL
                           /\ proc[p].ret_sent_at # NULL
               /\ ~proc[p].attempted
                  => /\ proc[p].sf # NULL
                     /\ proc[p].send_result = "none"
                     /\ proc[p].ret_sent_at = NULL)
    /\ [](\A n \in DOMAIN notifs :
            (notifs[n].sent_at # NULL /\ notifs[n].scheduled_for # NULL)
            => notifs[n].scheduled_for <= notifs[n].sent_at)
    /\ [][\A p \in Creators :
            (proc[p].pc = "check" /\ proc'[p].pc # "check")
            => IF proc[p].sf = NULL \/ proc[p].sf <= now
               THEN proc'[p].pc = "token"
               ELSE /\ proc'[p].pc = "done"
                    /\ ~proc'[p].attempted
                    /\ notifs' = notifs
                    /\ delivered' = delivered]_vars

\* a create call given a schedule time already past has sent the
\* notification before returning
C7_Witness ==
    \E p \in Creators :
      /\ proc[p].pc = "done"
      /\ proc[p].sf # NULL
      /\ proc[p].sf < now
      /\ proc[p].attempted
      /\ proc[p].send_result = "ok"
      /\ notifs[proc[p].nid].sent_at = now

\* C8 as claimed: on every creation path a create request whose
\* scheduled_for is <= now is rejected, and a rejected request stores nothing.
C8_RejectedOnEveryPath ==
    /\ [][\A p \in Creators :
            (/\ proc[p].pc = "idle"
             /\ proc'[p].pc # "idle"
             /\ proc'[p].sf # NULL
             /\ proc'[p].sf <= now)
            => proc'[p].outcome = "rejected"]_vars
    /\ [](\A p \in Creators : proc[p].outcome = "rejected" => proc[p].nid = 0)

\* C8 amended: a create request is rejected exactly when it comes through
\* the HTTP create route with a scheduled_at <= the time of validation, and
\* a rejected request stores nothing; the service-level paths reject nothing.
C8_RejectedOnHttpPath ==
    /\ [][\A p \in Creators :
            (proc[p].pc = "idle" /\ proc'[p].pc # "idle")
            => /\ proc'[p].outcome = "rejected"
                  <=> /\ proc'[p].path = "http"
                      /\ proc'[p].sf # NULL
                      /\ proc'[p].sf <= now
               /\ proc'[p].outcome # "rejected" => proc'[p].pc = "commit"
               /\ notifs' = notifs]_vars
    /\ [](\A p \in Creators :
            proc[p].outcome = "rejected"
            => proc[p].pc = "done" /\ proc[p].nid = 0)
    /\ [][(\E p \in Creators : proc[p].outcome = "rejected")
            => Len(notifs') = Len(notifs)]_vars

\* the HTTP route has rejected a request after a service-level call stored a
\* notification scheduled for the very instant of its creation
C8_Witness ==
    /\ \E p \in Creators : proc[p].outcome = "rejected" /\ proc[p].sf = now
    /\ Len(notifs) >= 1
    /\ notifs[1].scheduled_for = 0

\* C11: on every send path, when the provider reports the target token as
\* unregistered, the (user, token) rows are gone from fcm_tokens once the
\* send has returned, the attempt is reported as failed, and the attempt
\* leaves sent_at as it was.
C11_UnregisteredTokenRemoved ==
    [][\A p \in Procs :
         (/\ proc[p].pc = "send"
          /\ proc'[p].pc # "send"
          /\ proc'[p].pc # "mark"
          /\ proc'[p].send_result = "unregistered")
         => /\ ExistingRows(tokens', notifs[proc[p].nid].user_id,
                            proc[p].tok) = {}
            /\ proc'[p].sent_count = proc[p].sent_count
            /\ proc'[p].ret_sent_at = NULL
            /\ notifs' = notifs]_vars

\* C12: a provider error other than unregistered fails that attempt only:
\* fcm_tokens is unchanged by it, no notification row is written, nothing
\* counts as delivered, and the attempt is reported as failed.
C12_OtherErrorLeavesTokens ==
    [][\A p \in Procs :
         (/\ proc[p].pc = "send"
          /\ proc'[p].pc # "send"
          /\ proc'[p].pc # "mark"
          /\ proc'[p].send_result = "error")
         => /\ tokens' = tokens
            /\ notifs' = notifs
            /\ delivered' = delivered
            /\ proc'[p].sent_count = proc[p].sent_count
            /\ proc'[p].ret_sent_at = NULL]_vars

\* a sweep has ended on a provider error: the token it used is still
\* registered to the user and the notification is still unsent
C12_Witness ==
    /\ proc["s1"].pc = "done"
    /\ proc["s1"].send_result = "error"
    /\ proc["s1"].sent_count = 0
    /\ proc["s1"].nid \in DOMAIN notifs
    /\ notifs[proc["s1"].nid].sent_at = NULL
    /\ ExistingRows(tokens, notifs[proc["s1"].nid].user_id,
                    proc["s1"].tok) # {}

C14_MarkReadOwnerOnly ==
    [][(last'.op = "mark_read" /\ now' = now)
       => IF /\ last'.nid \in DOMAIN notifs
             /\ notifs[last'.nid].user_id = last'.user_id
          THEN /\ last'.ok
               /\ notifs'[last'.nid].is_read
               /\ notifs'[last'.nid].read_at = now
               /\ DOMAIN notifs' = DOMAIN notifs
               /\ \A m \in DOMAIN notifs :
                    m # last'.nid => notifs'[m] = notifs[m]
          ELSE /\ ~last'.ok
               /\ notifs' = notifs]_vars

\* a user's call on another user's unread notification returned false and
\* left it unread, while a notification marked by its owner is read
C14_Witness ==
    /\ last.op = "mark_read"
    /\ ~last.ok
    /\ last.nid \in DOMAIN notifs
    /\ notifs[last.nid].user_id # last.user_id
    /\ ~notifs[last.nid].is_read
    /\ \E m \in DOMAIN notifs : notifs[m].is_read

\* C15: mark_all_notifications_as_read(user) returns the number of the
\* user's notifications that were unread before the call, leaves all of the
\* user's notifications read, changes no row of another user and no row
\* that was already read; and the same call made right after it returns 0
\* and changes nothing.
C15_MarkAllReadCount ==
    [][(last'.op = "mark_all" /\ now' = now)
       => /\ last'.count
               = Cardinality({n \in DOMAIN notifs :
                                /\ notifs[n].user_id = last'.user_id
                                /\ ~notifs[n].is_read})
          /\ DOMAIN notifs' = DOMAIN notifs
          /\ \A n \in DOMAIN notifs :
               /\ notifs[n].user_id = last'.user_id => notifs'[n].is_read
               /\ (notifs[n].user_id # last'.user_id \/ notifs[n].is_read)
                  => notifs'[n] = notifs[n]
          /\ (last.op = "mark_all" /\ last.user_id = last'.user_id)
             => (last'.count = 0 /\ notifs' = notifs)]_vars

\* a call has marked a user's unread notifications while another user's
\* notification stays unread
C15_Witness ==
    /\ last.op = "mark_all"
    /\ last.count >= 1
    /\ \E n \in DOMAIN notifs :
         notifs[n].user_id = last.user_id /\ notifs[n].is_read
    /\ \E n \in DOMAIN notifs :
         notifs[n].user_id # last.user_id /\ ~notifs[n].is_read

\* C16: unregister_token(user, token) returns true exactly when a row of
\* the pair existed, and then one row of the pair and nothing else is
\* deleted; with no such row it returns false and fcm_tokens is unchanged.
C16_UnregisterReportsDeletion ==
    [][(last'.op = "unregister" /\ now' = now)
       => LET ex == ExistingRows(tokens, last'.user_id, last'.token) IN
          /\ last'.ok <=> ex # {}
          /\ ex = {} => tokens' = tokens
          /\ ex # {} => /\ tokens' \subseteq tokens
                        /\ (tokens \ tokens') \subseteq ex
                        /\ Cardinality(tokens \ tokens') = 1]_vars

\* an unregister call for a pair without a row returned false while the
\* token is registered to another user and the caller holds another token
C16_Witness ==
    /\ last.op = "unregister"
    /\ ~last.ok
    /\ \E r \in tokens : r.token = last.token /\ r.user_id # last.user_id
    /\ \E r \in tokens : r.user_id = last.user_id /\ r.token # last.token

\* C17: unregister_all_user_tokens(user) leaves no row of the user, leaves
\* the rows of every other user as they were and returns true, also when the
\* user had no row: from the state a first call leaves, a second call changes
\* nothing and returns true again.
C17_UnregisterAllIdempotent ==
    /\ [](last.op = "unregister_all"
          => last.ok /\ UserRows(tokens, last.user_id) = {})
    /\ [][(last'.op = "unregister_all" /\ now' = now)
          => /\ last'.ok
             /\ UserRows(tokens', last'.user_id) = {}
             /\ {r \in tokens' : r.user_id # last'.user_id}
                  = {r \in tokens : r.user_id # last'.user_id}
             /\ UserRows(tokens, last'.user_id) = {} => tokens' = tokens]_vars

\* every token of one user has been unregistered while another user keeps
\* a token
C17_Witness ==
    /\ last.op = "unregister_all"
    /\ last.ok
    /\ UserRows(tokens, last.user_id) = {}
    /\ tokens # {}

RECURSIVE SumSeq(_)
\* the sum of a sequence of numbers
SumSeq(q) == IF q = <<>> THEN 0 ELSE q[1] + SumSeq(Tail(q))

\* C18: multicast batching.  When a call in which no provider call raised
\* has returned, the batches were consecutive slices of at most 500 tokens
\* covering every token exactly once, exactly ceil(N/500) provider calls were
\* issued, and the value returned is the sum of the per-batch success counts.
C18_MulticastBatchesAndSum ==
    (mcast.pc = "done" /\ ~mcast.raised)
    => /\ \A k \in DOMAIN mcast.batches :
            /\ mcast.batches[k].hi - mcast.batches[k].lo + 1 <= BatchLimit
            /\ mcast.batches[k].lo = (IF k = 1 THEN 1
                                      ELSE mcast.batches[k - 1].hi + 1)
       /\ \A j \in 1..mcast.n :
            Cardinality({k \in DOMAIN mcast.batches :
                           /\ mcast.batches[k].lo <= j
                           /\ j <= mcast.batches[k].hi}) = 1
       /\ mcast.calls = (mcast.n + BatchLimit - 1) \div BatchLimit
       /\ mcast.ret = SumSeq(mcast.resp)

\* C19: a provider exception on one batch does not abort the rest.  When a
\* call in which a provider call raised has returned, every batch was sent
\* and the result reflects the successes of the batches that were accepted.
C19_BatchFailureIsolated ==
    (mcast.pc = "done" /\ mcast.raised)
    => /\ mcast.calls = Len(mcast.batches)
       /\ mcast.ret = PyBool(SumSeq(mcast.resp) > 0)

\* C20: per-user test jobs are idempotent.  The job store never holds two
\* jobs with one (kind, user) id; starting a job of a kind for a user who has
\* a job of that kind registered leaves test_users and the job store as they
\* were; so does stopping a job of a kind for a user who has none of that
\* kind registered.
C20_TestJobsIdempotent ==
    /\ [](\A k \in JobKinds, u \in Users :
            Cardinality({j \in sched.jobs : j.id = JobId(k, u)}) <= 1)
    /\ [][LET c == sched'.call
              has == \E j \in sched.jobs : j.id = JobId(c.kind, c.user_id)
          IN /\ (c.op = "start" /\ has)
                => /\ sched'.jobs = sched.jobs
                   /\ sched'.test_users = sched.test_users
             /\ (c.op = "stop" /\ ~has)
                => /\ sched'.jobs = sched.jobs
                   /\ sched'.test_users = sched.test_users]_vars

\* C21: stopping a per-user test job stops its future firings.  Once a stop
\* call for a job (kind, user) has returned, and until a start call for that
\* job, no firing of that job creates a notification; a firing runs to its
\* end once begun.
C21_StoppedJobCreatesNothing ==
    [][Len(notifs') > Len(notifs)
       => JobId(sched'.call.kind, sched'.call.user_id) \notin sched.stopped]_vars

\* C28: scheduler bookkeeping.  A user id is in test_users exactly when a
\* test job of that user is registered in the job store.
C28_TestUsersMatchJobs ==
    \A u \in Users :
      u \in sched.test_users
      <=> \E k \in JobKinds, j \in sched.jobs : j.id = JobId(k, u)

\* C22: one run of the daily digest creates exactly one notification for
\* each user who has daily updates and push notifications enabled, a current
\* crop tracking, week data and the content (week and crop translation) in
\* the preferred language, and none for any other user; a user with a
\* prerequisite missing is skipped without an error.
C22_DigestOnePerEligibleUser ==
    digest.pc = "done"
    => \A u \in Users :
         LET r == digest.data[u]
             eligible == /\ r.daily_updates /\ r.push_notifications
                         /\ r.current_crop_tracking_id /\ r.crop_tracking
                         /\ r.current_week /\ r.week_translation
                         /\ r.crop_translation
             created == Cardinality({n \in DOMAIN notifs :
                                       notifs[n].user_id = u})
         IN /\ created = IF eligible THEN 1 ELSE 0
            /\ ~eligible => u \notin digest.errors

\* C23: subscribe_to_topic for a name that is not in notification_topics
\* returns false, leaves user_topic_subscriptions as it was and calls no
\* provider; for an existing topic the user has exactly one association row
\* with the topic afterwards, however often the call is repeated, and nobody
\* else's rows change; the provider is only ever handed tokens registered
\* to that user.
C23_SubscribeLocalEffect ==
    [][LET c == subs'.call
       IN c.op = "subscribe"
          => /\ c.topic \notin subs.topics
                => /\ ~c.ret
                   /\ ~c.attempted
                   /\ subs'.rows = subs.rows
             /\ c.topic \in subs.topics
                => /\ Cardinality(SubscribedRows(subs'.rows, c.user_id,
                                                 c.topic)) = 1
                   /\ subs'.rows \ SubscribedRows(subs'.rows, c.user_id,
                                                  c.topic)
                      = subs.rows \ SubscribedRows(subs.rows, c.user_id,
                                                   c.topic)
             /\ \A t \in c.used : Owners(tokens, t) = {c.user_id}
             /\ c.attempted => c.used # {}]_vars

\* a repeated subscribe call of a user with a device: already subscribed,
\* true, no provider call, still one row
C23_Witness ==
    /\ subs.call.op = "subscribe"
    /\ subs.call.ret
    /\ ~subs.call.attempted
    /\ UserRows(tokens, subs.call.user_id) # {}
    /\ Cardinality(SubscribedRows(subs.rows, subs.call.user_id,
                                  subs.call.topic)) = 1
    /\ \E r \in tokens : r.user_id # subs.call.user_id

\* C29: subscribe_to_topic returns true exactly when the user has an
\* association row with the topic after the call.
C29_SubscribeResultIsLocalState ==
    [][LET c == subs'.call
       IN c.op = "subscribe"
          => (c.ret <=> SubscribedRows(subs'.rows, c.user_id, c.topic) # {})
      ]_vars

\* C24: a persistence failure fails loudly.  When the store fails while the
\* notification is created, the call raises to whoever made it, on every
\* path, no row is stored, no delivery is attempted and the provider is not
\* called.
C24_StoreFailureRaised ==
    [][\A p \in Creators :
         (proc[p].pc = "commit" /\ proc'[p].pc = "done")
         => /\ proc'[p].outcome = "raised"
            /\ ~proc'[p].attempted
            /\ notifs' = notifs
            /\ delivered' = delivered]_vars

\* C25: sent_at is only ever set after the provider accepted a send for that
\* notification.  In every state a notification with sent_at set is one the
\* provider accepted; a delivery attempt that ends without the provider
\* accepting (no token, a provider error) changes no notification row.
C25_SentOnlyAfterProviderSuccess ==
    /\ [](\A n \in DOMAIN notifs :
            notifs[n].sent_at # NULL => n \in delivered)
    /\ [][\A p \in Procs :
            (/\ proc[p].pc \in {"token", "send"}
             /\ proc'[p] # proc[p]
             /\ proc'[p].pc \notin {"send", "mark"})
            => notifs' = notifs]_vars

\* the sweep sent a scheduled notification which the provider accepted
C25_Witness ==
    /\ proc["s1"].pc = "done"
    /\ proc["s1"].sent_ids # {}
    /\ \A n \in proc["s1"].sent_ids :
         /\ notifs[n].sent_at # NULL
         /\ notifs[n].scheduled_for # NULL
         /\ n \in delivered

\* C26: retry until sent.  Every sweep selects exactly the scheduled
\* notifications whose time has come and whose sent_at is null, however
\* often they failed before; a sent notification stays sent and is never
\* selected again; and when sweeps keep running and the provider does not
\* refuse for ever, a due notification whose user keeps a token is
\* eventually sent.
C26_RetryUntilSent ==
    /\ [][(proc["r1"].pc = "idle" /\ proc'["r1"].pc # "idle")
          => Range(proc'["r1"].pending)
             = {n \in DOMAIN notifs : /\ notifs[n].scheduled_for # NULL
                                      /\ notifs[n].scheduled_for <= now
                                      /\ notifs[n].sent_at = NULL}]_vars
    /\ [][\A n \in DOMAIN notifs :
            notifs[n].sent_at # NULL => notifs'[n].sent_at # NULL]_vars
    /\ \A n \in 1..MaxRetryDue :
         (/\ n \in DOMAIN notifs
          /\ notifs[n].scheduled_for <= now
          /\ notifs[n].sent_at = NULL
          /\ UserRows(tokens, notifs[n].user_id) # {})
         ~> (/\ n \in DOMAIN notifs
             /\ \/ notifs[n].sent_at # NULL
                \/ UserRows(tokens, notifs[n].user_id) = {})

\* a notification the previous sweep tried and failed to send was selected
\* again and sent by this one
C26_Witness ==
    /\ proc["r1"].pc = "done"
    /\ \E n \in proc["r1"].prev_failed :
         /\ n \in proc["r1"].sent_ids
         /\ notifs[n].sent_at # NULL

\* C27: a provider call that never returns does not stall the sweep: the
\* other notifications of the run are still attempted.
C27_StallDoesNotStopSweep ==
    (proc["s1"].pc = "stalled")
    ~> (proc["s1"].tried = Range(proc["s1"].pending))

\* C30: a notification is only sent to a device of its own user.  When the
\* provider send for a notification is issued, the token it goes to is
\* registered to the notification's user and to nobody else.
C30_SentToOwnDevice ==
    [][\A p \in Creators :
         (proc[p].pc = "send" /\ proc'[p].pc # "send")
         => Owners(tokens, proc[p].tok) = {notifs[proc[p].nid].user_id}]_vars

====
